---- MODULE Spec2Model ----
(***************************************************************************)
(* A model of the pricecheck scraper: src/main.py and                      *)
(* src/product_scraper_poc/scraper.py.                                     *)
(*                                                                         *)
(* The crawl is one asyncio coroutine chain (main -> scrape_all_categories *)
(* -> scrape_data -> scrape_listing_page) plus the detail tasks that       *)
(* asyncio.gather runs concurrently.  The web site is the environment: the *)
(* content of a page is chosen the first time the page is answered and is  *)
(* kept unchanged afterwards (variable web).                               *)
(*                                                                         *)
(* Texts are sequences of characters.                                      *)
(* URLs are records [kind, n].  Only logger.warning and logger.error calls *)
(* are kept in the log; logger.info calls are left out.                    *)
(***************************************************************************)
EXTENDS Integers, Sequences, FiniteSets, TLC

\* ------------------------------------------------------------------ bounds
\* listing pages of the site
NumPages == 2
\* product containers on all listing pages of the site together
MaxProducts == 2
\* category containers on the root page
MaxCats == 2
\* listing-page answers in one walk (caps a cyclic next-page chain)
MaxFetches == 3

\* ------------------------------------------------------------------- texts
Min(a, b) == IF a < b THEN a ELSE b

RECURSIVE LStrip(_)
LStrip(t) == IF t # <<>> /\ Head(t) = " " THEN LStrip(Tail(t)) ELSE t

RECURSIVE RStrip(_)
RStrip(t) ==
    IF t # <<>> /\ t[Len(t)] = " " THEN RStrip(SubSeq(t, 1, Len(t) - 1)) ELSE t

\* str.strip() and get_text(strip=True)
Strip(t) == RStrip(LStrip(t))

\* str.replace(':', '')
RemoveColons(t) == SelectSeq(t, LAMBDA c : c # ":")

\* the keys 'Title', 'Image URL' and 'Product URL'
TITLE == <<"T", "i", "t", "l", "e">>
IMAGE_URL == <<"I", "m", "a", "g", "e", " ", "U", "R", "L">>
PRODUCT_URL == <<"P", "r", "o", "d", "u", "c", "t", " ", "U", "R", "L">>

\* the sentinel 'N/A'
NA_TEXT == <<"N", "/", "A">>

\* -------------------------------------------------------------------- URLs
URL(k, n) == [kind |-> k, n |-> n]
ROOT_URL == URL("root", 0)
NA_URL == URL("N/A", 0)
None == URL("None", 0)
ListingURLs == {URL("listing", i) : i \in 1..NumPages}
\* every product container of the site links to a detail page of its own
DetailURLs == {URL("detail", i) : i \in 1..MaxProducts}

\* -------------------------------------------------------- the site's pages
\* The decimal text of a small number, for the texts of generated pages.
Digit(n) == <<"0", "1", "2", "3", "4", "5", "6", "7", "8", "9">>[n + 1]

\* What select_one returns: an element with its text and one attribute of
\* interest (href or src), or nothing (found = FALSE).  has = FALSE is an
\* element without that attribute.
Element(text, val) == [found |-> TRUE, text |-> text, has |-> TRUE, val |-> val]
WithoutAttr(e) == [e EXCEPT !.has = FALSE]
NoElement(val) == [found |-> FALSE, text |-> <<>>, has |-> FALSE, val |-> val]

\* Product containers.  The title element carries the detail link.
TitleElement(d) == Element(<<" ", "t", Digit(d.n), " ">>, d)
ImageElement(d) == Element(<<>>, <<"i", Digit(d.n)>>)
ProductContainer(t, i) == [title |-> t, image |-> i]
WellFormed(d) == ProductContainer(TitleElement(d), ImageElement(d))
NoTitle(d) == ProductContainer(NoElement(NA_URL), ImageElement(d))
NoHref(d) == ProductContainer(WithoutAttr(TitleElement(d)), ImageElement(d))
NoImage(d) == ProductContainer(TitleElement(d), NoElement(<<>>))
NoSrc(d) == ProductContainer(TitleElement(d), WithoutAttr(ImageElement(d)))

\* The k-th product container of the site links to the k-th detail page.
ContainerKinds(d) == {WellFormed(d), NoTitle(d), NoHref(d), NoImage(d), NoSrc(d)}

\* The next-page element of a listing page.
NextLinks ==
    {NoElement(None)}
      \cup {Element(<<">">>, u) : u \in ListingURLs}
      \cup {WithoutAttr(Element(<<">">>, None))}

\* Category containers of the root page: a span with the name and a link.
CategoryNames == {<<" ", "b", " ">>, <<"t">>}
CategoryContainer(s, a) == [span |-> s, a |-> a]
Category(nm, u) == CategoryContainer(Element(nm, None), Element(<<>>, u))
NoSpan(u) == CategoryContainer(NoElement(None), Element(<<>>, u))
NoLink(nm) == CategoryContainer(Element(nm, None), NoElement(None))
NoLinkHref(nm) == CategoryContainer(Element(nm, None), WithoutAttr(Element(<<>>, None)))
CategoryContainers ==
    {Category(nm, u) : nm \in CategoryNames, u \in ListingURLs}
      \cup {NoSpan(URL("listing", 1)), NoLink(<<"t">>), NoLinkHref(<<"t">>)}

\* Sequences over S of length at most n.
SeqUpTo(S, n) == UNION {[1..k -> S] : k \in 0..n}

\* The detail table of the detail page d: a row of two cells, a row of three
\* cells, and on the first detail page a row whose header is "Title".
Cell(t) == t
DetailRows(d) ==
    << <<Cell(<<" ", "k", ":", " ">>), Cell(<<" ", "v", Digit(d.n), " ">>)>>,
       <<Cell(<<"a">>), Cell(<<"b">>), Cell(<<"c">>)>> >>
      \o (IF d.n = 1 THEN << <<Cell(TITLE \o <<":">>), Cell(<<"x">>)>> >> ELSE <<>>)

Unknown == [known |-> FALSE]
RootPage(st, cs) == [known |-> TRUE, status |-> st, categories |-> cs]
ListingPage(st, ps, nx) == [known |-> TRUE, status |-> st, products |-> ps, next |-> nx]
DetailPage(st, tb, rs) == [known |-> TRUE, status |-> st, table |-> tb, rows |-> rs]

HTTP_OK == 200
Statuses == {HTTP_OK, 404}
Failing == Statuses \ {HTTP_OK}

\* A page served with a failing status has a body too: were the status
\* ignored, the body would be parsed like any other.
RootPages ==
    {RootPage(st, <<Category(<<"t">>, URL("listing", 1))>>) : st \in Failing}
      \cup {RootPage(HTTP_OK, cs) : cs \in SeqUpTo(CategoryContainers, MaxCats)}

\* The detail pages d can be: not served, without a table, with its table.
DetailPages(d) ==
    {DetailPage(st, TRUE, DetailRows(d)) : st \in Failing}
      \cup {DetailPage(HTTP_OK, FALSE, <<>>), DetailPage(HTTP_OK, TRUE, DetailRows(d))}

\* The listing pages a site that has already shown `used` product containers
\* can serve: the containers of a new page link to the next detail pages.
ProductLists(used) ==
    UNION {{ps \in [1..n -> UNION {ContainerKinds(d) : d \in DetailURLs}] :
              \A i \in 1..n : ps[i] \in ContainerKinds(URL("detail", used + i))} :
           n \in 0..(MaxProducts - used)}
ListingPages(used) ==
    {ListingPage(st, <<WellFormed(URL("detail", 1))>>, Element(<<">">>, URL("listing", 1))) :
        st \in Failing}
      \cup {ListingPage(HTTP_OK, ps, nx) : ps \in ProductLists(used), nx \in NextLinks}

\* ------------------------------------------------------------------- state
VARIABLES
    web,                \* the site: root, listing[u], detail[d]; Unknown until served
    pc,                 \* where the coroutine chain of main is suspended
    outer,              \* the ClientSession of scrape_all_categories
    inner,              \* the ClientSession of the running scrape_data
    categories,         \* fetch_categories' result: sequence of [name, url]
    cat,                \* index of the category being scraped
    all_category_data,  \* dict name -> DataFrame, as a sequence of [name, df]
    current_page_url,   \* scrape_listing_page
    current_page,       \* scrape_listing_page
    all_product_details, \* scrape_listing_page's stubs = product_details_list
    tasks,              \* the detail tasks of the running gather
    product_details,    \* what gather returned
    requests,           \* every session.get issued, in order
    log,                \* logger.warning and logger.error calls, in order
    written,            \* the sheets written by save_to_excel_multiple_sheets
    exception,          \* the exception that left main, "" when none has
    in_flight           \* the session.get calls whose fetch_page has not returned

vars == <<web, pc, outer, inner, categories, cat, all_category_data,
          current_page_url, current_page, all_product_details, tasks,
          product_details, requests, log, written, exception, in_flight>>

\* ------------------------------------------------------------------ logging
Entry(level, msg, url, text) == [level |-> level, msg |-> msg, url |-> url, text |-> text]
Error(msg, url) == Entry("ERROR", msg, url, <<>>)
Warning(msg, url, text) == Entry("WARNING", msg, url, text)

\* --------------------------------------------------------------- fetch_page
\* fetch_page without the status check: the body is returned whatever the status.
fetch_page_any_status(url, page) == [none |-> FALSE, markup |-> page, log |-> <<>>]

\* What fetch_page returns for an answered request: None on a status other
\* than 200 (with an error logged), the markup otherwise.
fetch_page(url, page) ==
    IF page.status # HTTP_OK
    THEN [none |-> TRUE, markup |-> page, log |-> <<Error("Failed to fetch page", url)>>]
    ELSE [none |-> FALSE, markup |-> page, log |-> <<>>]

\* --------------------------------------------------------- fetch_categories
\* The body of the try block for one category container; raised = TRUE when
\* select_one('span') is None, select_one('a') is None or it has no href.
\* Every category link of the modelled sites is absolute (starts with http).
ExtractCategory(c) ==
    IF ~c.span.found \/ ~c.a.found \/ ~c.a.has
    THEN [raised |-> TRUE, item |-> [name |-> <<>>, url |-> None]]
    ELSE [raised |-> FALSE, item |-> [name |-> Strip(c.span.text), url |-> c.a.val]]

RECURSIVE ExtractCategories(_)
ExtractCategories(cs) ==
    IF cs = <<>> THEN [items |-> <<>>, log |-> <<>>]
    ELSE LET r == ExtractCategory(Head(cs))
             rest == ExtractCategories(Tail(cs))
         IN  IF r.raised
             THEN [items |-> rest.items,
                   log |-> <<Warning("Error extracting category URL", None, <<>>)>> \o rest.log]
             ELSE [items |-> <<r.item>> \o rest.items, log |-> rest.log]

fetch_categories(html) ==
    IF html.none
    THEN [items |-> <<>>, log |-> html.log \o <<Error("Failed to fetch categories.", ROOT_URL)>>]
    ELSE ExtractCategories(html.markup.categories)

\* ------------------------------------------------------ scrape_listing_page
Stub(title, image_url, product_url) ==
    [Title |-> title, Image_URL |-> image_url, Product_URL |-> product_url]

\* A lookup of the title element that finds nothing in any container.
ExtractProduct_no_title(c) ==
    [raised |-> c.image.found /\ ~c.image.has,
     item |-> Stub(NA_TEXT, IF c.image.found THEN c.image.val ELSE NA_TEXT, NA_URL)]

\* The body of the try block for one product container; raised = TRUE when
\* image_element['src'] or title_element['href'] raises KeyError.
ExtractProduct(c) ==
    LET title == IF c.title.found THEN Strip(c.title.text) ELSE NA_TEXT
        image_url == IF c.image.found THEN c.image.val ELSE NA_TEXT
        product_url == IF c.title.found THEN c.title.val ELSE NA_URL
    IN  IF (c.image.found /\ ~c.image.has) \/ (c.title.found /\ ~c.title.has)
        THEN [raised |-> TRUE, item |-> Stub(<<>>, <<>>, None)]
        ELSE [raised |-> FALSE, item |-> Stub(title, image_url, product_url)]

RECURSIVE ExtractProducts(_)
ExtractProducts(ps) ==
    IF ps = <<>> THEN [items |-> <<>>, log |-> <<>>]
    ELSE LET r == ExtractProduct(Head(ps))
             rest == ExtractProducts(Tail(ps))
         IN  IF r.raised
             THEN [items |-> rest.items,
                   log |-> <<Warning("Error extracting data for a product", None, <<>>)>>
                             \o rest.log]
             ELSE [items |-> <<r.item>> \o rest.items, log |-> rest.log]

\* The loop ended after the first page, whatever its next-page link.
NextPage_never(next_page_link) == None

\* scrape_listing_page:103-109: the URL of the next turn of the loop, None
\* to end it (the element is known to have its href).
NextPage(next_page_link) ==
    IF next_page_link.found THEN next_page_link.val ELSE None

\* --------------------------------------------------- scrape_product_details
EmptyDict == [k \in {} |-> <<>>]
DictPut(d, k, v) == [x \in DOMAIN d \cup {k} |-> IF x = k THEN v ELSE d[x]]

\* The loop over the rows of the table, from product_data = acc.
RECURSIVE ParseRows(_, _)
ParseRows(rows, acc) ==
    IF rows = <<>> THEN acc
    ELSE LET columns == Head(rows)
         IN  IF Len(columns) = 2
             THEN ParseRows(Tail(rows),
                            DictPut(acc, RemoveColons(Strip(columns[1])), Strip(columns[2])))
             ELSE ParseRows(Tail(rows), acc)

\* What one detail task does with the answer to its request: raised = TRUE
\* when fetch_page returned None and BeautifulSoup(None, ...) raises.
scrape_product_details(product_url, page) ==
    LET html == fetch_page(product_url, page)
    IN  IF html.none
        THEN [raised |-> TRUE, product_data |-> EmptyDict, log |-> html.log]
        ELSE IF page.table
        THEN [raised |-> FALSE, product_data |-> ParseRows(page.rows, EmptyDict), log |-> <<>>]
        ELSE [raised |-> FALSE, product_data |-> EmptyDict,
              log |-> <<Warning("No product details table found", product_url, <<>>)>>]

\* -------------------------------------------------------------- scrape_data
\* The results in the order in which the tasks completed.
gather_as_completed(ts) ==
    [k \in 1..Len(ts) |-> ts[CHOOSE i \in 1..Len(ts) : ts[i].finished_at = k].result]

\* asyncio.gather(*tasks) when every task has returned: the results in the
\* order of the tasks (finished_at, the order of completion, plays no part).
gather(ts) == [i \in 1..Len(ts) |-> ts[i].result]

\* A merge in which a key of the detail table wins over the stub's field.
Update_keep_details(details, product) ==
    [x \in DOMAIN details \cup {TITLE, IMAGE_URL, PRODUCT_URL} |->
       IF x \in DOMAIN details THEN details[x]
       ELSE IF x = TITLE THEN product.Title
       ELSE IF x = IMAGE_URL THEN product.Image_URL
       ELSE product.Product_URL]

\* details.update({...}) of one stub
Update(details, product) ==
    DictPut(DictPut(DictPut(details, TITLE, product.Title),
                    IMAGE_URL, product.Image_URL),
            PRODUCT_URL, product.Product_URL)

\* A test that every dict passes.
Truthy_always(details) == TRUE

\* if details: (a dict is true when it has a key)
Truthy(details) == DOMAIN details # {}

\* The loop over zip(product_details_list, product_details): the records
\* appended to all_products_data, the dicts of product_details as update
\* left them, and the warnings.
RECURSIVE MergeLoop(_, _)
MergeLoop(stubs, details) ==
    IF stubs = <<>> \/ details = <<>>
    THEN [data |-> <<>>, details |-> details, log |-> <<>>]
    ELSE LET rest == MergeLoop(Tail(stubs), Tail(details))
             product == Head(stubs)
         IN  IF Truthy(Head(details))
             THEN LET rec == Update(Head(details), product)
                  IN  [data |-> <<rec>> \o rest.data,
                       details |-> <<rec>> \o rest.details,
                       log |-> rest.log]
             ELSE [data |-> rest.data,
                   details |-> <<Head(details)>> \o rest.details,
                   log |-> <<Warning("Skipping as no details were extracted",
                                     product.Product_URL, product.Title)>> \o rest.log]

\* ---------------------------------------------------- scrape_all_categories
\* all_category_data[name] = df on a dict kept as a sequence of [name, df]
\* in insertion order: an existing key keeps its place and gets the value.
DictSet(d, name, df) ==
    IF \E i \in 1..Len(d) : d[i].name = name
    THEN [i \in 1..Len(d) |-> IF d[i].name = name THEN [name |-> name, df |-> df] ELSE d[i]]
    ELSE Append(d, [name |-> name, df |-> df])

\* ------------------------------------------------ save_to_excel_multiple_sheets
SHEET_NAME_LEN == 31
\* The whole category name as the sheet name.
SheetName_full(category) == category

\* sheet_name = category[:31]
SheetName(category) == SubSeq(category, 1, Min(SHEET_NAME_LEN, Len(category)))

\* The sheets the loop over category_data.items() hands to the writer.
RECURSIVE Sheets(_)
Sheets(category_data) ==
    IF category_data = <<>> THEN <<>>
    ELSE LET c == Head(category_data)
         IN  IF c.df # <<>>
             THEN <<[sheet_name |-> SheetName(c.name), data |-> c.df]>>
                    \o Sheets(Tail(category_data))
             ELSE Sheets(Tail(category_data))

\* data.to_excel(writer, sheet_name=...) on a sheet the writer already has:
\* pandas looks the worksheet up by name and writes the frame's cells into
\* it from the first row, so the rows beyond the new frame keep what the
\* earlier frame put there.
Overlay(old, new) == new \o SubSeq(old, Len(new) + 1, Len(old))

\* The worksheets of the file after the frames were handed to the writer in
\* this order: one worksheet per distinct sheet name.
RECURSIVE Workbook(_)
Workbook(frames) ==
    IF frames = <<>> THEN <<>>
    ELSE LET f == frames[Len(frames)]
             book == Workbook(SubSeq(frames, 1, Len(frames) - 1))
         IN  IF \E i \in 1..Len(book) : book[i].sheet_name = f.sheet_name
             THEN [i \in 1..Len(book) |->
                     IF book[i].sheet_name = f.sheet_name
                     THEN [sheet_name |-> f.sheet_name,
                           data |-> Overlay(book[i].data, f.data)]
                     ELSE book[i]]
             ELSE Append(book, f)

\* ----------------------------------------------------------------- sessions
\* A session that is never closed.
Release_never(session) == session

\* async with aiohttp.ClientSession() as session: the exit of the block, on
\* return and on an exception alike.
Release(session) == IF session = "open" THEN "closed" ELSE session

\* A session.get: the URL, the session and whether it was open, and the
\* category whose crawl issued it (0 for the root page).
Request(url, session, state, c) ==
    [url |-> url, session |-> session, open |-> state = "open", cat |-> c]

\* A fetch_page call that is suspended in session.get: its URL, the category
\* whose crawl made it (0 for the root page) and the detail task that made
\* it (0 for the root and the listing pages, which main's chain fetches).
Flight(url, c, task) == [url |-> url, cat |-> c, task |-> task]

\* A fetch_page that returns while its request stays in flight.
Completes_never(flights, f) == flights

\* fetch_page returns (or raises): the request is no longer in flight.
Completes(flights, f) == flights \ {f}

\* the product containers of the pages the site has served so far
RECURSIVE Used(_, _)
Used(w, n) ==
    IF n = 0 THEN 0
    ELSE Used(w, n - 1)
           + (IF w.listing[URL("listing", n)].known
                 /\ w.listing[URL("listing", n)].status = HTTP_OK
              THEN Len(w.listing[URL("listing", n)].products) ELSE 0)

\* The answers the site can give for a page: the one it gave before, if any.
ListingAnswers(u) ==
    IF web.listing[u].known THEN {web.listing[u]} ELSE ListingPages(Used(web, NumPages))
DetailAnswers(d) ==
    IF web.detail[d].known THEN {web.detail[d]} ELSE DetailPages(d)

\* save_to_excel_multiple_sheets has not been called.  called: the function
\* was entered; tried: it reached its try block; ok: it returned; sheets: the
\* worksheets of the file it wrote.
NotWritten == [called |-> FALSE, tried |-> FALSE, ok |-> FALSE, sheets |-> <<>>]

\* --------------------------------------------------------------------- Init
Init ==
    /\ web = [root |-> Unknown,
              listing |-> [u \in ListingURLs |-> Unknown],
              detail |-> [d \in DetailURLs |-> Unknown]]
    /\ pc = "main"
    /\ outer = "none"
    /\ inner = "none"
    /\ categories = <<>>
    /\ cat = 1
    /\ all_category_data = <<>>
    /\ current_page_url = None
    /\ current_page = 1
    /\ all_product_details = <<>>
    /\ tasks = <<>>
    /\ product_details = <<>>
    /\ requests = <<>>
    /\ log = <<>>
    /\ written = NotWritten
    /\ exception = ""
    /\ in_flight = {}

\* ------------------------------------------------------------------ actions
\* main.py:13 -> scrape_all_categories:54-55 -> fetch_categories:22: the
\* session is opened and the root page requested.
Start ==
    /\ pc = "main"
    /\ outer' = "open"
    /\ requests' = Append(requests, Request(ROOT_URL, "outer", outer', 0))
    /\ in_flight' = in_flight \cup {Flight(ROOT_URL, 0, 0)}
    /\ pc' = "fetch_categories"
    /\ UNCHANGED exception
    /\ UNCHANGED <<web, inner, categories, cat, all_category_data, current_page_url,
                   current_page, all_product_details, tasks, product_details, log,
                   written>>

\* fetch_categories:22-47 and scrape_all_categories:56, on the root's answer.
RootResponse ==
    /\ pc = "fetch_categories"
    /\ \E page \in RootPages :
         LET r == fetch_categories(fetch_page(ROOT_URL, page))
         IN  /\ web' = [web EXCEPT !.root = page]
             /\ categories' = r.items
             /\ log' = log \o r.log
    /\ all_category_data' = <<>>
    /\ cat' = 1
    /\ in_flight' = Completes(in_flight, Flight(ROOT_URL, 0, 0))
    /\ pc' = "for_category"
    /\ UNCHANGED exception
    /\ UNCHANGED <<outer, inner, current_page_url, current_page, all_product_details,
                   tasks, product_details, requests, written>>

\* scrape_all_categories:58-60 -> scrape_data:143-144 ->
\* scrape_listing_page:67-75: the next category's crawl starts, its session
\* is opened and its first listing page requested.
ScrapeCategory ==
    /\ pc = "for_category"
    /\ cat <= Len(categories)
    /\ inner' = "open"
    /\ all_product_details' = <<>>
    /\ current_page_url' = categories[cat].url
    /\ current_page' = 1
    /\ tasks' = <<>>
    /\ product_details' = <<>>
    /\ requests' = Append(requests, Request(current_page_url', "inner", inner', cat))
    /\ in_flight' = in_flight \cup {Flight(current_page_url', cat, 0)}
    /\ pc' = "scrape_listing_page"
    /\ UNCHANGED exception
    /\ UNCHANGED <<web, outer, categories, cat, all_category_data, log, written>>

\* scrape_all_categories:63: the loop is over, the session is left.
ReturnCategories ==
    /\ pc = "for_category"
    /\ cat > Len(categories)
    /\ outer' = Release(outer)
    /\ pc' = "main_if"
    /\ UNCHANGED <<exception, in_flight>>
    /\ UNCHANGED <<web, inner, categories, cat, all_category_data, current_page_url,
                   current_page, all_product_details, tasks, product_details, requests,
                   log, written>>

\* scrape_listing_page:75-109, one turn of the while loop on the answer to
\* the request of current_page_url: break on None; else the stubs of the
\* page, then the next-page link (next_page_link['href'] raises KeyError
\* outside any try block when the element has no href).
ListingResponse ==
    /\ pc = "scrape_listing_page"
    /\ current_page <= MaxFetches
    /\ \E page \in ListingAnswers(current_page_url) :
         LET html == fetch_page(current_page_url, page)
             r == ExtractProducts(page.products)
             next_page_link == page.next
         IN  /\ web' = [web EXCEPT !.listing[current_page_url] = page]
             /\ log' = log \o (IF html.none THEN html.log ELSE r.log)
             /\ all_product_details' =
                  IF html.none THEN all_product_details ELSE all_product_details \o r.items
             /\ IF html.none
                THEN /\ pc' = "create_tasks"
                     /\ in_flight' = Completes(in_flight, Flight(current_page_url, cat, 0))
                     /\ UNCHANGED <<current_page_url, current_page, requests, inner, outer,
                                    exception>>
                ELSE IF next_page_link.found /\ ~next_page_link.has
                THEN /\ pc' = "raised"
                     /\ exception' = "KeyError"
                     /\ inner' = Release(inner)
                     /\ outer' = Release(outer)
                     /\ in_flight' = Completes(in_flight, Flight(current_page_url, cat, 0))
                     /\ UNCHANGED <<current_page_url, current_page, requests>>
                ELSE IF NextPage(next_page_link) # None
                THEN /\ current_page_url' = NextPage(next_page_link)
                     /\ current_page' = current_page + 1
                     /\ requests' = Append(requests, Request(current_page_url', "inner", inner, cat))
                     /\ in_flight' = Completes(in_flight, Flight(current_page_url, cat, 0))
                                       \cup {Flight(current_page_url', cat, 0)}
                     /\ pc' = "scrape_listing_page"
                     /\ UNCHANGED <<inner, outer, exception>>
                ELSE /\ current_page_url' = None
                     /\ in_flight' = Completes(in_flight, Flight(current_page_url, cat, 0))
                     /\ pc' = "create_tasks"
                     /\ UNCHANGED <<current_page, requests, inner, outer, exception>>
    /\ UNCHANGED <<categories, cat, all_category_data, tasks, product_details, written>>

\* A detail task: its request, its state ("fetching", "done" with a result,
\* "failed" with an exception), and the rank of its completion among the
\* tasks of its gather (0 while it runs).
Task(url, state) ==
    [url |-> url, state |-> state, result |-> EmptyDict, exception |-> "", finished_at |-> 0]
Finished(ts) == Cardinality({i \in 1..Len(ts) : ts[i].state # "fetching"})

\* scrape_data:145-152: one task per stub.  gather schedules them all and
\* each runs to its session.get before the caller is resumed; the task of an
\* 'N/A' link fails in session.get (no host to connect to).
CreateTasks ==
    /\ pc = "create_tasks"
    /\ tasks' = [i \in 1..Len(all_product_details) |->
                   LET url == all_product_details[i].Product_URL
                   IN  IF url = NA_URL
                       THEN [Task(url, "failed") EXCEPT !.exception = "InvalidURL",
                                                        !.finished_at = 1]
                       ELSE Task(url, "fetching")]
    /\ requests' = requests \o
                     SelectSeq([i \in 1..Len(all_product_details) |->
                                  Request(all_product_details[i].Product_URL, "inner", inner, cat)],
                               LAMBDA q : q.url # NA_URL)
    /\ in_flight' = in_flight \cup
                       {Flight(all_product_details[i].Product_URL, cat, i) :
                          i \in {j \in 1..Len(all_product_details) :
                                   all_product_details[j].Product_URL # NA_URL}}
    /\ product_details' = <<>>
    /\ pc' = "gather"
    /\ UNCHANGED exception
    /\ UNCHANGED <<web, outer, inner, categories, cat, all_category_data,
                   current_page_url, current_page, all_product_details, log, written>>

\* scrape_product_details:118-137 of task i, on the answer to its request.
\* The task runs whether or not its gather has already failed.
TaskResponse(i) ==
    /\ tasks[i].state = "fetching"
    /\ \E page \in DetailAnswers(tasks[i].url) :
         LET r == scrape_product_details(tasks[i].url, page)
         IN  /\ web' = [web EXCEPT !.detail[tasks[i].url] = page]
             /\ tasks' = [tasks EXCEPT ![i].state = IF r.raised THEN "failed" ELSE "done",
                                       ![i].result = r.product_data,
                                       ![i].exception = IF r.raised THEN "TypeError" ELSE "",
                                       ![i].finished_at = Finished(tasks) + 1]
             /\ log' = log \o r.log
    /\ in_flight' = Completes(in_flight, Flight(tasks[i].url, cat, i))
    /\ UNCHANGED <<pc, outer, inner, categories, cat, all_category_data, current_page_url,
                   current_page, all_product_details, product_details, requests, written,
                   exception>>

\* Task i, still waiting for its answer when its session is closed, loses
\* the connection: session.get raises in the task.
TaskDisconnected(i) ==
    /\ tasks[i].state = "fetching"
    /\ inner # "open"
    /\ tasks' = [tasks EXCEPT ![i].state = "failed",
                              ![i].exception = "ClientConnectionError",
                              ![i].finished_at = Finished(tasks) + 1]
    /\ in_flight' = Completes(in_flight, Flight(tasks[i].url, cat, i))
    /\ UNCHANGED <<web, pc, outer, inner, categories, cat, all_category_data,
                   current_page_url, current_page, all_product_details, product_details,
                   requests, log, written, exception>>

\* A gather that returns as soon as one task has returned.
GatherReturn_first_completed ==
    /\ pc = "gather"
    /\ \E i \in 1..Len(tasks) : tasks[i].state = "done"
    /\ product_details' = gather(tasks)
    /\ pc' = "merge"
    /\ UNCHANGED <<exception, in_flight>>
    /\ UNCHANGED <<web, outer, inner, categories, cat, all_category_data, current_page_url,
                   current_page, all_product_details, tasks, requests, log, written>>

\* scrape_data:152, every task has returned: gather returns the results.
GatherReturn ==
    /\ pc = "gather"
    /\ \A i \in 1..Len(tasks) : tasks[i].state = "done"
    /\ product_details' = gather(tasks)
    /\ pc' = "merge"
    /\ UNCHANGED <<exception, in_flight>>
    /\ UNCHANGED <<web, outer, inner, categories, cat, all_category_data, current_page_url,
                   current_page, all_product_details, tasks, requests, log, written>>

\* A crawl that gives up the category of a failed task and goes on with the
\* next one.
GatherRaise_isolated ==
    /\ pc = "gather"
    /\ \E i \in 1..Len(tasks) : tasks[i].state = "failed"
    /\ inner' = Release(inner)
    /\ cat' = cat + 1
    /\ pc' = "for_category"
    /\ UNCHANGED <<web, outer, categories, all_category_data, current_page_url,
                   current_page, all_product_details, tasks, product_details, requests,
                   log, written, exception, in_flight>>

\* scrape_data:152, a task has raised: gather raises the first exception in
\* scrape_data at once, without cancelling or awaiting the other tasks; the
\* exception leaves both async with blocks (143, 54) and main.
GatherRaise ==
    /\ pc = "gather"
    /\ \E i \in 1..Len(tasks) :
         /\ tasks[i].state = "failed"
         /\ \A j \in 1..Len(tasks) :
              tasks[j].state = "failed" => tasks[i].finished_at <= tasks[j].finished_at
         /\ exception' = tasks[i].exception
    /\ inner' = Release(inner)
    /\ outer' = Release(outer)
    /\ pc' = "raised"
    /\ UNCHANGED <<web, categories, cat, all_category_data, current_page_url,
                   current_page, all_product_details, tasks, product_details, requests,
                   log, written, in_flight>>

\* scrape_data:155-168 and scrape_all_categories:61: the merge, the
\* DataFrame (kept as the sequence of its rows), the exit of the session
\* block and the entry of the category in all_category_data.
Merge ==
    /\ pc = "merge"
    /\ LET m == MergeLoop(all_product_details, product_details)
       IN  /\ product_details' = m.details
           /\ log' = log \o m.log
           /\ all_category_data' = DictSet(all_category_data, categories[cat].name, m.data)
    /\ inner' = Release(inner)
    /\ cat' = cat + 1
    /\ pc' = "for_category"
    /\ UNCHANGED <<exception, in_flight>>
    /\ UNCHANGED <<web, outer, categories, current_page_url, current_page,
                   all_product_details, tasks, requests, written>>

\* main.py:15-16 and save_to_excel_multiple_sheets:179-187: category_data is
\* a non-empty dict and the writer writes the file.
Save ==
    /\ pc = "main_if"
    /\ all_category_data # <<>>
    /\ written' = [called |-> TRUE, tried |-> TRUE, ok |-> TRUE,
                   sheets |-> Workbook(Sheets(all_category_data))]
    /\ pc' = "done"
    /\ UNCHANGED <<exception, in_flight>>
    /\ UNCHANGED <<web, outer, inner, categories, cat, all_category_data, current_page_url,
                   current_page, all_product_details, tasks, product_details, requests, log>>

\* main.py:15-16 and save_to_excel_multiple_sheets:174-177: the output
\* directory is missing and os.makedirs raises (before the try block, so no
\* handler of the function sees the error).
MakedirsFails ==
    /\ pc = "main_if"
    /\ all_category_data # <<>>
    /\ written' = [called |-> TRUE, tried |-> FALSE, ok |-> FALSE, sheets |-> <<>>]
    /\ exception' = "OSError"
    /\ pc' = "raised"
    /\ UNCHANGED <<web, outer, inner, categories, cat, all_category_data, current_page_url,
                   current_page, all_product_details, tasks, product_details, requests,
                   log, in_flight>>

\* A writer error that the function logs and does not raise again.
SaveFails_swallowed ==
    /\ pc = "main_if"
    /\ all_category_data # <<>>
    /\ written' = [called |-> TRUE, tried |-> TRUE, ok |-> FALSE, sheets |-> <<>>]
    /\ log' = Append(log, Error("Error saving data to Excel", None))
    /\ pc' = "done"
    /\ UNCHANGED <<web, outer, inner, categories, cat, all_category_data, current_page_url,
                   current_page, all_product_details, tasks, product_details, requests,
                   exception, in_flight>>

\* main.py:15-16 and save_to_excel_multiple_sheets:188-190: the writer
\* raises (an I/O error); the error is logged and raised again.
SaveFails ==
    /\ pc = "main_if"
    /\ all_category_data # <<>>
    /\ written' = [called |-> TRUE, tried |-> TRUE, ok |-> FALSE, sheets |-> <<>>]
    /\ log' = Append(log, Error("Error saving data to Excel", None))
    /\ exception' = "OSError"
    /\ pc' = "raised"
    /\ UNCHANGED <<web, outer, inner, categories, cat, all_category_data, current_page_url,
                   current_page, all_product_details, tasks, product_details, requests, in_flight>>

\* main.py:17-18: category_data is an empty dict.
NoData ==
    /\ pc = "main_if"
    /\ all_category_data = <<>>
    /\ log' = Append(log, Error("No data scraped. Exiting the process.", None))
    /\ pc' = "done"
    /\ UNCHANGED <<exception, in_flight>>
    /\ UNCHANGED <<web, outer, inner, categories, cat, all_category_data, current_page_url,
                   current_page, all_product_details, tasks, product_details, requests,
                   written>>

Next ==
    \/ Start
    \/ RootResponse
    \/ ScrapeCategory
    \/ ReturnCategories
    \/ ListingResponse
    \/ CreateTasks
    \/ \E i \in 1..Len(tasks) : TaskResponse(i)
    \/ \E i \in 1..Len(tasks) : TaskDisconnected(i)
    \/ GatherReturn
    \/ GatherRaise
    \/ Merge
    \/ Save
    \/ MakedirsFails
    \/ SaveFails
    \/ NoData

Spec == Init /\ [][Next]_vars

\* ------------------------------------------- save_to_excel_multiple_sheets
\* main.py:15-18 on the dicts scrape_all_categories can return: the keys are
\* stripped category names (distinct, as dict keys are), the values frames
\* of merged records.
NAME_PREFIX == [i \in 1..SHEET_NAME_LEN |-> "n"]
\* two names of 32 characters that differ in the last one only
LongNameA == NAME_PREFIX \o <<"a">>
LongNameB == NAME_PREFIX \o <<"b">>
\* a name of 35 characters, no two neighbours alike
LongName35 == [i \in 1..35 |-> Digit(i % 10)]
SavedNames == {<<"t">>, LongNameA, LongNameB, LongName35}

\* a merged record of product d
SavedRecord(d) ==
    Update(DictPut(EmptyDict, <<"k">>, <<"v", Digit(d)>>),
           Stub(<<"p", Digit(d)>>, <<"i", Digit(d)>>, URL("detail", d)))
SavedFrames == {<<>>} \cup {<<SavedRecord(d)>> : d \in 1..MaxProducts}
                      \cup {<<SavedRecord(1), SavedRecord(d)>> : d \in 2..MaxProducts}

SavedDicts ==
    {<<>>}
    \cup {<<[name |-> n, df |-> f]>> : n \in SavedNames, f \in SavedFrames}
    \cup {d \in {<<[name |-> n1, df |-> f1], [name |-> n2, df |-> f2]>> :
                    n1 \in SavedNames, n2 \in SavedNames,
                    f1 \in SavedFrames, f2 \in SavedFrames} :
            d[1].name # d[2].name}

\* main has the dict of scrape_all_categories in hand (main.py:13 returned).
InitSave ==
    /\ web = [root |-> Unknown,
              listing |-> [u \in ListingURLs |-> Unknown],
              detail |-> [d \in DetailURLs |-> Unknown]]
    /\ pc = "main_if"
    /\ outer = "closed"
    /\ inner = "closed"
    /\ categories = <<>>
    /\ cat = 1
    /\ all_category_data \in SavedDicts
    /\ current_page_url = None
    /\ current_page = 1
    /\ all_product_details = <<>>
    /\ tasks = <<>>
    /\ product_details = <<>>
    /\ requests = <<>>
    /\ log = <<>>
    /\ written = NotWritten
    /\ exception = ""
    /\ in_flight = {}

NextSave ==
    \/ Save
    \/ MakedirsFails
    \/ SaveFails
    \/ NoData

SpecSave == InitSave /\ [][NextSave]_vars

\* =================================================================== claims
\* The listing pages requested by the walk of the category being crawled.
RECURSIVE URLsOf(_)
URLsOf(qs) == IF qs = <<>> THEN <<>> ELSE <<Head(qs).url>> \o URLsOf(Tail(qs))
Walked == URLsOf(SelectSeq(requests, LAMBDA q : q.cat = cat /\ q.url.kind = "listing"))
FailedPage(u) == web.listing[u].known /\ web.listing[u].status # HTTP_OK

\* The DetailRecord of a detail page the site has served.
DetailRecordOf(url) == scrape_product_details(url, web.detail[url]).product_data

\* C1: when gather returns, the i-th result is the DetailRecord of the page
\* of the i-th stub's detail URL, whatever the order in which the tasks
\* completed.
C1_OrderPreservation ==
    pc = "merge" =>
      /\ Len(product_details) = Len(all_product_details)
      /\ \A i \in 1..Len(product_details) :
           product_details[i] = DetailRecordOf(all_product_details[i].Product_URL)

\* gather has returned two different records of tasks that completed in the
\* reverse of their order.
C1_Witness ==
    /\ pc = "merge"
    /\ Len(tasks) >= 2
    /\ tasks[1].finished_at > tasks[2].finished_at
    /\ product_details[1] # product_details[2]
    /\ Truthy(product_details[1])

\* The chain of listing pages that starts at u, as the site serves it:
\* ok when every page answers 200, links to a page not yet in the chain, and
\* the last one has no next-page link.
RECURSIVE ChainFrom(_, _)
ChainFrom(u, seen) ==
    LET page == web.listing[u]
    IN  IF u \in seen \/ ~page.known
        THEN [ok |-> FALSE, urls |-> <<>>]
        ELSE IF page.status # HTTP_OK \/ (page.next.found /\ ~page.next.has)
        THEN [ok |-> FALSE, urls |-> <<>>]
        ELSE IF ~page.next.found
        THEN [ok |-> TRUE, urls |-> <<u>>]
        ELSE LET r == ChainFrom(page.next.val, seen \cup {u})
             IN  [ok |-> r.ok, urls |-> <<u>> \o r.urls]
Chain == ChainFrom(categories[cat].url, {})

\* C2: when the walk of a chain of K pages returns, it has requested
\* exactly the K pages of the chain, each once, in chain order.
C2_ChainWalk ==
    (pc = "create_tasks" /\ Chain.ok) => Walked = Chain.urls

\* the walk of a chain of two pages has returned
C2_Witness ==
    /\ pc = "create_tasks"
    /\ Chain.ok
    /\ Len(Chain.urls) = 2
    /\ Len(Walked) = 2

\* C3: a walk never requests the same listing URL twice, whatever the
\* next-page links point to.
C3_NeverRevisits ==
    \A i, j \in 1..Len(Walked) : i # j => Walked[i] # Walked[j]

\* The stubs of the listing pages urls, in order.
RECURSIVE StubsOfPages(_)
StubsOfPages(urls) ==
    IF urls = <<>> THEN <<>>
    ELSE ExtractProducts(web.listing[Head(urls)].products).items \o StubsOfPages(Tail(urls))

\* C4: a listing page answered with a status other than 200 is the last page
\* the walk requests; the walk then returns the stubs of the pages before it
\* and raises nothing.
C4_FailedListingStops ==
    LET n == Len(Walked)
    IN  /\ \A i \in 1..(n - 1) : ~FailedPage(Walked[i])
        /\ (n > 0 /\ pc # "scrape_listing_page" /\ FailedPage(Walked[n])) =>
             /\ all_product_details = StubsOfPages(SubSeq(Walked, 1, n - 1))
             /\ exception # "KeyError"
             /\ pc = "raised" => \E i \in 1..Len(tasks) : tasks[i].state = "failed"

\* the walk has returned the stubs of page 1 after page 2 failed
C4_Witness ==
    /\ pc = "create_tasks"
    /\ Len(Walked) = 2
    /\ FailedPage(Walked[2])
    /\ all_product_details # <<>>

\* The DataFrame of the category whose crawl has just been merged, and the
\* tasks of that crawl that returned a non-empty DetailRecord.
MergedDf ==
    all_category_data[CHOOSE i \in 1..Len(all_category_data) :
                        all_category_data[i].name = categories[cat - 1].name].df
NonEmpty == {i \in 1..Len(tasks) : tasks[i].result # EmptyDict}
Rank(i) == Cardinality({j \in NonEmpty : j <= i})

\* C5: after the merge there is one ProductRecord for each non-empty
\* DetailRecord and none for an empty one, in stub order, each with the
\* fields of its own stub and the attributes of its own DetailRecord; their
\* number is at most the number of stubs.
C5_MergeCompleteness ==
    (pc = "for_category" /\ cat > 1) =>
      /\ Len(MergedDf) = Cardinality(NonEmpty)
      /\ Len(MergedDf) <= Len(all_product_details)
      /\ \A i \in NonEmpty :
           /\ MergedDf[Rank(i)][PRODUCT_URL] = all_product_details[i].Product_URL
           /\ MergedDf[Rank(i)][IMAGE_URL] = all_product_details[i].Image_URL
           /\ \A k \in DOMAIN tasks[i].result \ {TITLE, IMAGE_URL, PRODUCT_URL} :
                MergedDf[Rank(i)][k] = tasks[i].result[k]

\* a merge of two stubs, the first with an empty DetailRecord
C5_Witness ==
    /\ pc = "for_category"
    /\ cat > 1
    /\ Len(tasks) = 2
    /\ NonEmpty = {2}
    /\ Len(MergedDf) = 1

\* C6: when one detail fetch of a category fails with a status other than
\* 200 and every other product of the category has a non-empty detail table,
\* the crawl of the category still completes.
C6_DetailFailureIsolated ==
    LET failed == {i \in 1..Len(tasks) :
                     tasks[i].state = "failed" /\ tasks[i].exception = "TypeError"}
        good == {i \in 1..Len(tasks) : tasks[i].state = "done" /\ Truthy(tasks[i].result)}
    IN  (Len(tasks) >= 2 /\ Cardinality(failed) = 1 /\ failed \cup good = 1..Len(tasks))
          => pc # "raised"

\* C7: the detail collection hands control back, by returning or by
\* failing, and its session is closed, only when every task it launched has
\* completed.
C7_JoinAll ==
    (pc \in {"merge", "raised"} \/ inner = "closed") =>
      \A i \in 1..Len(tasks) : tasks[i].state # "fetching"

\* C8: once the crawl has ended, by returning or by an exception, no session
\* is open, and every request was issued on a session that was open.
C8_SessionScoping ==
    /\ pc \in {"done", "raised"} => (outer # "open" /\ inner # "open")
    /\ pc = "main_if" => (outer = "closed" /\ inner # "open")
    /\ \A i \in 1..Len(requests) : requests[i].open

\* the crawl has ended with the exception of a detail task, after requests
\* on both sessions, and both sessions are closed
C8_Witness ==
    /\ pc = "raised"
    /\ exception = "TypeError"
    /\ outer = "closed"
    /\ inner = "closed"
    /\ Len(requests) >= 3

RECURSIVE TotalRecords(_)
TotalRecords(category_data) ==
    IF category_data = <<>> THEN 0
    ELSE Len(Head(category_data).df) + TotalRecords(Tail(category_data))

\* C9: a crawl that yields no ProductRecord never invokes the write of the
\* output file, and it ends with the terminal error logged.
C9_NoRecordsNoWrite ==
    /\ written.called => TotalRecords(all_category_data) > 0
    /\ (pc = "done" /\ TotalRecords(all_category_data) = 0) =>
         (log # <<>> /\ log[Len(log)].msg = "No data scraped. Exiting the process.")

\* C10: a missing element or attribute of one item of a page never aborts
\* the page walk or the crawl.
C10_ExtractionIsolated ==
    exception \notin {"KeyError", "InvalidURL"}

\* ------------------------------------------------------------ C11 .. C14
\* the categories of a dict whose frame has a row
NonEmptyCategories(d) == {i \in 1..Len(d) : d[i].df # <<>>}

\* C11: the file written has exactly one table per category whose record set
\* is non-empty, holding that category's records, and no other table.
C11_OneTablePerCategory ==
    written.ok =>
      /\ Len(written.sheets) = Cardinality(NonEmptyCategories(all_category_data))
      /\ \A i \in NonEmptyCategories(all_category_data) :
           \E j \in 1..Len(written.sheets) :
             written.sheets[j].data = all_category_data[i].df

\* the writer block of save_to_excel_multiple_sheets did not return
SaveFailed == written.called /\ ~written.ok
LoggedSaveError ==
    log # <<>> /\ log[Len(log)] = Error("Error saving data to Excel", None)

\* C12 as stated: every failure inside save_to_excel_multiple_sheets is
\* logged and raised to main.
C12_LoggedAndReraised ==
    SaveFailed => pc = "raised" /\ exception # "" /\ LoggedSaveError

\* C12: every failure inside save_to_excel_multiple_sheets leaves main as an
\* exception, so main never finishes as after a save; the failure is logged
\* when it happens inside the try block of the function.
C12_FailurePropagates ==
    SaveFailed =>
      /\ pc = "raised"
      /\ exception = "OSError"
      /\ written.tried => LoggedSaveError

\* the writer failed, the error was logged and main is left by the exception
C12_Witness ==
    /\ SaveFailed
    /\ written.tried
    /\ LoggedSaveError
    /\ pc = "raised"
    /\ TotalRecords(all_category_data) > 0

\* C13: scrape_all_categories returns one CategoryResult per enumerated
\* category.
C13_OneResultPerCategory ==
    pc = "main_if" => Len(all_category_data) = Len(categories)

\* the first min(31, length) characters of a name
First31(name) == [j \in 1..Min(31, Len(name)) |-> name[j]]

\* C14: the sheet of every category written is named by the first
\* min(31, length) characters of the category's name, and no sheet has a name
\* longer than 31 characters.
C14_SheetNameTruncation ==
    written.ok =>
      /\ \A j \in 1..Len(written.sheets) : Len(written.sheets[j].sheet_name) <= 31
      /\ \A i \in NonEmptyCategories(all_category_data) :
           \E j \in 1..Len(written.sheets) :
             written.sheets[j].sheet_name = First31(all_category_data[i].name)
      /\ \A j \in 1..Len(written.sheets) :
           \E i \in NonEmptyCategories(all_category_data) :
             written.sheets[j].sheet_name = First31(all_category_data[i].name)

\* a category whose name has 35 characters was written to a sheet whose name
\* has 31
C14_Witness ==
    /\ written.ok
    /\ \E i \in NonEmptyCategories(all_category_data) :
         /\ Len(all_category_data[i].name) = 35
         /\ \E j \in 1..Len(written.sheets) :
              /\ written.sheets[j].sheet_name = First31(all_category_data[i].name)
              /\ Len(written.sheets[j].sheet_name) = 31
              /\ written.sheets[j].data = all_category_data[i].df

\* ------------------------------------------------------------ C15 .. C20
\* The crawl as a function of the pages of the site, computed one step after
\* the other: the stubs of the walk from u (at most fuel pages), the frame
\* of a category and the dict of all categories.
RECURSIVE RefWalk(_, _)
RefWalk(u, fuel) ==
    LET page == web.listing[u]
    IN  IF fuel = 0 \/ ~page.known \/ page.status # HTTP_OK THEN <<>>
        ELSE ExtractProducts(page.products).items
               \o (IF page.next.found /\ page.next.has
                   THEN RefWalk(page.next.val, fuel - 1) ELSE <<>>)
RefFrame(stubs) ==
    MergeLoop(stubs, [i \in 1..Len(stubs) |-> DetailRecordOf(stubs[i].Product_URL)]).data
RECURSIVE RefData(_, _)
RefData(cs, d) ==
    IF cs = <<>> THEN d
    ELSE RefData(Tail(cs),
                 DictSet(d, Head(cs).name, RefFrame(RefWalk(Head(cs).url, MaxFetches))))

\* C15: the record sets a crawl returns are determined by the pages the site
\* served (same categories, records, order and field values), whatever the
\* order in which the detail tasks completed.
C15_Determinism ==
    pc = "main_if" =>
      all_category_data
        = RefData(fetch_categories(fetch_page(ROOT_URL, web.root)).items, <<>>)

\* the crawl has returned two different records of a category whose tasks
\* completed in the reverse of their order
C15_Witness ==
    /\ pc = "main_if"
    /\ Len(tasks) = 2
    /\ tasks[1].finished_at > tasks[2].finished_at
    /\ \E k \in 1..Len(all_category_data) :
         /\ Len(all_category_data[k].df) = 2
         /\ all_category_data[k].df[1] # all_category_data[k].df[2]

\* a product container with its title link and its image, each with its
\* attribute
IsWellFormed(c) == c.title.found /\ c.title.has /\ c.image.found /\ c.image.has

\* C16: the walk of one listing page that answers 200, has N well-formed
\* product containers and no next-page link returns N stubs, the i-th with
\* the title, image reference and detail URL of the i-th container.
C16_SinglePageStubs ==
    (/\ pc = "create_tasks"
     /\ Len(Walked) = 1
     /\ web.listing[Walked[1]].status = HTTP_OK
     /\ ~web.listing[Walked[1]].next.found
     /\ \A i \in 1..Len(web.listing[Walked[1]].products) :
          IsWellFormed(web.listing[Walked[1]].products[i]))
    => LET containers == web.listing[Walked[1]].products
       IN  /\ Len(all_product_details) = Len(containers)
           /\ \A i \in 1..Len(containers) :
                /\ all_product_details[i].Title = Strip(containers[i].title.text)
                /\ all_product_details[i].Image_URL = containers[i].image.val
                /\ all_product_details[i].Product_URL = containers[i].title.val

\* the walk of a single page with two well-formed containers has returned
C16_Witness ==
    /\ pc = "create_tasks"
    /\ Len(Walked) = 1
    /\ web.listing[Walked[1]].status = HTTP_OK
    /\ ~web.listing[Walked[1]].next.found
    /\ Len(web.listing[Walked[1]].products) = 2
    /\ \A i \in 1..2 : IsWellFormed(web.listing[Walked[1]].products[i])
    /\ Len(all_product_details) = 2

ListingFlights == {f \in in_flight : f.url.kind = "listing"}
DetailFlights == {f \in in_flight : f.url.kind = "detail"}

\* C17: at most one listing-page fetch is outstanding, and it is the fetch of
\* the last page the walk has requested, every page before it having been
\* answered; a detail-page fetch is outstanding only after the walk has
\* returned, and within a category every listing request precedes every
\* detail request; only detail-page fetches are outstanding together.
C17_PhaseOrdering ==
    /\ Cardinality(ListingFlights) <= 1
    /\ ListingFlights # {} =>
         /\ pc = "scrape_listing_page"
         /\ ListingFlights = {Flight(Walked[Len(Walked)], cat, 0)}
    /\ \A i \in 1..(Len(Walked) - 1) : web.listing[Walked[i]].known
    /\ DetailFlights # {} => (ListingFlights = {} /\ pc \in {"gather", "raised"})
    /\ \A i, j \in 1..Len(requests) :
         (i < j /\ requests[i].cat = requests[j].cat /\ requests[i].url.kind = "detail")
           => requests[j].url.kind = "detail"
    /\ Cardinality(in_flight) > 1 => in_flight = DetailFlights

\* after a walk of two pages, two detail-page fetches are outstanding
C17_Witness ==
    /\ pc = "gather"
    /\ Len(Walked) = 2
    /\ Cardinality(DetailFlights) = 2
    /\ ListingFlights = {}

\* C18: once a detail task of a category has raised, the crawl never goes on
\* to a merge, to another category or to the write: it stays in the gather
\* until the exception leaves main, no later category is requested and
\* nothing is written.
C18_NoIsolationBetweenCategories ==
    (\E i \in 1..Len(tasks) : tasks[i].state = "failed") =>
      /\ pc \in {"gather", "raised"}
      /\ pc = "raised" => exception # ""
      /\ \A k \in 1..Len(requests) : requests[k].cat <= cat
      /\ ~written.called

\* a task of the second category has raised and ended the crawl after the
\* first category was merged with a record; nothing is written
C18_Witness ==
    /\ pc = "raised"
    /\ cat = 2
    /\ \E i \in 1..Len(tasks) : tasks[i].state = "failed"
    /\ TotalRecords(all_category_data) > 0
    /\ ~written.called

\* C19: in every merged record the fields Title, Image URL and Product URL
\* are those of the record's stub, and every other key has the value the
\* detail table gave it; the record has no other key.
C19_StubFieldsWin ==
    (pc = "for_category" /\ cat > 1) =>
      \A i \in NonEmpty :
        /\ MergedDf[Rank(i)][TITLE] = all_product_details[i].Title
        /\ MergedDf[Rank(i)][IMAGE_URL] = all_product_details[i].Image_URL
        /\ MergedDf[Rank(i)][PRODUCT_URL] = all_product_details[i].Product_URL
        /\ DOMAIN MergedDf[Rank(i)]
             = DOMAIN tasks[i].result \cup {TITLE, IMAGE_URL, PRODUCT_URL}
        /\ \A k \in DOMAIN tasks[i].result \ {TITLE, IMAGE_URL, PRODUCT_URL} :
             MergedDf[Rank(i)][k] = tasks[i].result[k]

\* a record was merged whose detail table has a row with the key Title and a
\* value other than the stub's title
C19_Witness ==
    /\ pc = "for_category"
    /\ cat > 1
    /\ \E i \in NonEmpty :
         /\ TITLE \in DOMAIN tasks[i].result
         /\ tasks[i].result[TITLE] # all_product_details[i].Title
         /\ MergedDf[Rank(i)][TITLE] = all_product_details[i].Title

\* C20: every outstanding detail fetch belongs to the category being
\* crawled and there are no more of them than stubs of that category; the
\* requests of a category all come after those of the categories before it;
\* and while a walk runs no detail fetch is outstanding and every earlier
\* category has its entry in the result.
C20_OneCategoryAtATime ==
    /\ \A f \in DetailFlights : f.cat = cat
    /\ Cardinality(DetailFlights) <= Len(all_product_details)
    /\ \A i, j \in 1..Len(requests) : i < j => requests[i].cat <= requests[j].cat
    /\ pc = "scrape_listing_page" =>
         /\ DetailFlights = {}
         /\ \A c \in 1..(cat - 1) :
              \E k \in 1..Len(all_category_data) :
                all_category_data[k].name = categories[c].name

\* two detail fetches of the second category are outstanding after the
\* detail fetches of the first category
C20_Witness ==
    /\ cat = 2
    /\ pc = "gather"
    /\ Cardinality(DetailFlights) = 2
    /\ \E k \in 1..Len(requests) : requests[k].cat = 1 /\ requests[k].url.kind = "detail"

====
